---- MODULE Spec2Model ----
(***************************************************************************)
(* A model of b70 (BIP70 payment protocol for bcoin): the protobuf reader  *)
(* (lib/utils/protoreader.js), the message codecs (PaymentDetails,         *)
(* Payment, PaymentRequest, PaymentACK) and the sign / verify protocol of  *)
(* PaymentRequest.                                                         *)
(*                                                                         *)
(* Representation.                                                         *)
(*  - A Buffer is a sequence of bytes (0..255).  A JavaScript offset o is  *)
(*    the 1-based index o + 1.                                             *)
(*  - null / undefined is None == <<>>, a present value x is Some(x).      *)
(*  - A string is the sequence of its code points.                         *)
(*  - A JavaScript number n is the pair <<hi, lo>> with n = hi * 2^28 + lo *)
(*    (TLC integers are 32 bits wide, the program's are 53): 0 <= lo <     *)
(*    2^28 when hi > 0, and the small, possibly negative, integers are     *)
(*    <<0, n>>.                                                            *)
(*  - The outcome of a call is a record with kind "ok", "throw" (the call  *)
(*    raised) or "hang" (the call never returns).                          *)
(***************************************************************************)
EXTENDS Integers, Sequences, FiniteSets, TLC

VARIABLES req, hist, br, obj, ret

vars == <<req, hist, br, obj, ret>>

None == <<>>
Some(x) == <<x>>

\* const x = e; ... : the value of e is computed once and named
Bind(x, F(_)) == F(x)

(***************************************************************************)
(* Numbers.                                                                *)
(***************************************************************************)
TwoTo28 == 268435456
TwoTo21 == 2097152

Num(n) == <<0, n>>
MinusOne == Num(-1)

\* 2^42 - 1, 2^42, 2^32, 2^53 - 1 and 2^53.
Max6Groups == <<16383, TwoTo28 - 1>>
Min7Groups == <<16384, 0>>
TwoTo32 == <<16, 0>>
MaxSafe == <<33554431, TwoTo28 - 1>>
TwoTo53 == <<33554432, 0>>

\* Number.isSafeInteger(n) && n >= 0
IsSafeNat(n) == n[1] >= 0 /\ n[1] < 33554432 /\ n[2] >= 0 /\ n[2] < TwoTo28

\* n >> 7 and n & 0x7f of a non-negative number
Shr7(n) == <<n[1] \div 128, (n[2] \div 128) + (n[1] % 128) * TwoTo21>>
Low7(n) == n[2] % 128

Utf8Replacement == 65533

\* Buffer.from(str, 'utf8')
RECURSIVE Utf8Encode(_)
Utf8Encode(s) ==
  IF s = <<>> THEN <<>>
  ELSE LET c == Head(s)
           b == IF c < 128 THEN <<c>>
                ELSE IF c < 2048 THEN <<192 + (c \div 64), 128 + (c % 64)>>
                ELSE <<224 + (c \div 4096), 128 + ((c \div 64) % 64), 128 + (c % 64)>>
       IN b \o Utf8Encode(Tail(s))

IsCont(b) == b >= 128 /\ b < 192

\* buf.toString('utf8'): an ill-formed byte decodes to U+FFFD
RECURSIVE Utf8Decode(_)
Utf8Decode(b) ==
  IF b = <<>> THEN <<>>
  ELSE LET c == b[1] IN
    IF c < 128 THEN <<c>> \o Utf8Decode(Tail(b))
    ELSE IF c >= 194 /\ c < 224 /\ Len(b) >= 2 /\ IsCont(b[2])
      THEN <<(c - 192) * 64 + (b[2] - 128)>> \o Utf8Decode(SubSeq(b, 3, Len(b)))
    ELSE IF c >= 224 /\ c < 240 /\ Len(b) >= 3 /\ IsCont(b[2]) /\ IsCont(b[3])
            /\ (c - 224) * 4096 + (b[2] - 128) * 64 >= 2048
      THEN <<(c - 224) * 4096 + (b[2] - 128) * 64 + (b[3] - 128)>>
             \o Utf8Decode(SubSeq(b, 4, Len(b)))
    ELSE <<Utf8Replacement>> \o Utf8Decode(Tail(b))

(***************************************************************************)
(* ProtoWriter (lib/utils/protowriter.js).                                 *)
(***************************************************************************)
Ok(b) == [kind |-> "ok", bytes |-> b]
Throw == [kind |-> "throw"]

\* the base-128 groups of a non-negative number, least significant first,
\* every group but the last with the continuation bit
RECURSIVE VarintGroups(_)
VarintGroups(n) ==
  IF Shr7(n) = <<0, 0>> THEN <<Low7(n)>>
  ELSE <<Low7(n) + 128>> \o VarintGroups(Shr7(n))

writeVarint(n) == IF IsSafeNat(n) THEN Ok(VarintGroups(n)) ELSE Throw

\* the writes of one message, in order: the first that raises ends it
RECURSIVE Render(_)
Render(ws) ==
  IF ws = <<>> THEN Ok(<<>>)
  ELSE IF Head(ws).kind # "ok" THEN Throw
  ELSE Bind(Render(Tail(ws)), LAMBDA rest :
         IF rest.kind # "ok" THEN Throw ELSE Ok(Head(ws).bytes \o rest.bytes))

VARINT == 0
FIXED64 == 1
DELIMITED == 2
START_GROUP == 3
END_GROUP == 4
FIXED32 == 5

writeFieldVarint(tag, n) == Render(<<writeVarint(Num(tag * 8 + VARINT)), writeVarint(n)>>)
writeFieldU64(tag, n) == writeFieldVarint(tag, n)
writeFieldU32(tag, n) == writeFieldVarint(tag, n)
writeFieldBytes(tag, b) ==
  Render(<<writeVarint(Num(tag * 8 + DELIMITED)), writeVarint(Num(Len(b))), Ok(b)>>)
writeFieldString(tag, s) == writeFieldBytes(tag, Utf8Encode(s))
\* nothing is written for an absent field
Skip == Ok(<<>>)

(***************************************************************************)
(* ProtoReader (lib/utils/protoreader.js).  A reader is a buffer and a     *)
(* cursor; an operation returns its outcome and the cursor it leaves.      *)
(***************************************************************************)

\* a failed read: how it ended (throw, hang) and where the cursor is
ReadFailed(r) == [kind |-> r.kind, off |-> r.off]
\* the rest of a method after a read that returned
Then(r, F(_)) == IF r.kind # "ok" THEN ReadFailed(r) ELSE F(r)

\* one pass of the while loop of _readVarint; ch is the byte read last
RECURSIVE ReadVarintLoop(_, _, _, _, _)
ReadVarintLoop(data, off, num, ch, size) ==
  IF ch < 128 THEN [kind |-> "ok", size |-> size, value |-> num]
  ELSE IF off >= Len(data) THEN [kind |-> "ok", size |-> size, value |-> Num(0)]
  ELSE LET g == data[off + 1] % 128
           n == IF size <= 3 THEN <<num[1], num[2] + g * (2 ^ (7 * size))>>
                ELSE IF size = 4 THEN <<num[1] + g, num[2]>>
                ELSE <<num[1] + g * (2 ^ (7 * (size - 4))), num[2]>>
       IN IF size + 1 < 7 THEN ReadVarintLoop(data, off + 1, n, data[off + 1], size + 1)
          ELSE [kind |-> "throw"]

_readVarint(data, off) == ReadVarintLoop(data, off, Num(0), 128, 0)

\* ProtoReader.readVarint: the cursor advances by the size returned
readVarint(data, off) ==
  Bind(_readVarint(data, off), LAMBDA v :
    IF v.kind = "ok" THEN [kind |-> "ok", value |-> v.value, off |-> off + v.size]
    ELSE [kind |-> "throw", off |-> off])

\* BufferReader.readU32, readU64, readBytes (bufio): little-endian, and an
\* error when the buffer ends first or the value exceeds 2^53 - 1
readU32(data, off) ==
  IF off + 4 > Len(data) THEN [kind |-> "throw", off |-> off]
  ELSE [kind |-> "ok", off |-> off + 4,
        value |-> <<data[off + 4] \div 16,
                    data[off + 1] + data[off + 2] * 256 + data[off + 3] * 65536
                      + (data[off + 4] % 16) * 16777216>>]

readU64(data, off) ==
  IF off + 8 > Len(data) THEN [kind |-> "throw", off |-> off]
  ELSE IF data[off + 8] # 0 \/ data[off + 7] >= 32 THEN [kind |-> "throw", off |-> off]
  ELSE [kind |-> "ok", off |-> off + 8,
        value |-> <<(data[off + 4] \div 16) + data[off + 5] * 16
                      + data[off + 6] * 4096 + data[off + 7] * 1048576,
                    data[off + 1] + data[off + 2] * 256 + data[off + 3] * 65536
                      + (data[off + 4] % 16) * 16777216>>]

readBytes(data, off, size) ==
  IF size[1] # 0 \/ off + size[2] > Len(data) THEN [kind |-> "throw", off |-> off]
  ELSE [kind |-> "ok", off |-> off + size[2],
        value |-> SubSeq(data, off + 1, off + size[2])]

readVarBytes(data, off) ==
  Then(readVarint(data, off), LAMBDA n : readBytes(data, n.off, n.value))

\* new Field(header): tag = header >>> 3, type = header & 7
Field(header) ==
  [tag |-> ((header[1] % 16) * 33554432) + (header[2] \div 8),
   type |-> header[2] % 8,
   size |-> 0, value |-> Num(0), data |-> None, group |-> None]

RECURSIVE readField(_, _, _, _)
RECURSIVE ReadGroup(_, _, _)

\* the for (;;) loop of the START_GROUP case.  A pass that reads an inner
\* field of no bytes leaves the cursor where it was, so the next pass is
\* the same pass: the loop never ends.
ReadGroup(data, off, group) ==
  Then(readField(data, off, None, FALSE), LAMBDA inner :
    IF inner.field[1].type = END_GROUP
      THEN [kind |-> "ok", off |-> inner.off, value |-> group]
    ELSE IF inner.off = off THEN [kind |-> "hang", off |-> off]
    ELSE ReadGroup(data, inner.off, Append(group, inner.field[1])))

\* the switch on field.type: the payload, read at cursor off
ReadPayload(data, off, field) ==
  CASE field.type = VARINT ->
         Then(readVarint(data, off), LAMBDA v :
           [kind |-> "ok", off |-> v.off, field |-> [field EXCEPT !.value = v.value]])
    [] field.type = FIXED64 ->
         Then(readU64(data, off), LAMBDA v :
           [kind |-> "ok", off |-> v.off, field |-> [field EXCEPT !.value = v.value]])
    [] field.type = DELIMITED ->
         Then(readVarBytes(data, off), LAMBDA v :
           [kind |-> "ok", off |-> v.off, field |-> [field EXCEPT !.data = Some(v.value)]])
    [] field.type = START_GROUP ->
         Then(ReadGroup(data, off, <<>>), LAMBDA v :
           [kind |-> "ok", off |-> v.off, field |-> [field EXCEPT !.group = Some(v.value)]])
    [] field.type = FIXED32 ->
         Then(readU32(data, off), LAMBDA v :
           [kind |-> "ok", off |-> v.off, field |-> [field EXCEPT !.value = v.value]])
    [] OTHER -> [kind |-> "throw", off |-> off]

\* readField(tag, opt): tag is None when no tag is expected.  The result
\* is the field (None for the null returned on a mismatch) and the cursor.
readField(data, off, tag, opt) ==
  Then(readVarint(data, off), LAMBDA header :
    IF tag # None /\ Field(header.value).tag # tag[1]
    THEN IF opt THEN [kind |-> "ok", field |-> None, off |-> off]
         ELSE [kind |-> "throw", off |-> header.off]
    ELSE Then(ReadPayload(data, header.off, Field(header.value)), LAMBDA p :
           [kind |-> "ok", off |-> p.off,
            field |-> Some([p.field EXCEPT !.size = p.off - off])]))

\* the typed accessors: value is what the accessor returns
readFieldU64(data, off, tag, opt) ==
  Then(readField(data, off, Some(tag), opt), LAMBDA r :
    IF r.field = None THEN [kind |-> "ok", off |-> r.off, value |-> MinusOne]
    ELSE IF r.field[1].type \notin {VARINT, FIXED64} THEN [kind |-> "throw", off |-> r.off]
    ELSE [kind |-> "ok", off |-> r.off, value |-> r.field[1].value])

readFieldU32(data, off, tag, opt) ==
  Then(readField(data, off, Some(tag), opt), LAMBDA r :
    IF r.field = None THEN [kind |-> "ok", off |-> r.off, value |-> MinusOne]
    ELSE IF r.field[1].type \notin {VARINT, FIXED32} THEN [kind |-> "throw", off |-> r.off]
    ELSE [kind |-> "ok", off |-> r.off, value |-> r.field[1].value])

\* value is None for null, Some(bytes) otherwise
readFieldBytes(data, off, tag, opt) ==
  Then(readField(data, off, Some(tag), opt), LAMBDA r :
    IF r.field = None THEN [kind |-> "ok", off |-> r.off, value |-> None]
    ELSE IF r.field[1].data = None THEN [kind |-> "throw", off |-> r.off]
    ELSE [kind |-> "ok", off |-> r.off, value |-> r.field[1].data])

readFieldString(data, off, tag, opt) ==
  Then(readFieldBytes(data, off, tag, opt), LAMBDA r :
    IF r.value = None THEN r ELSE [r EXCEPT !.value = Some(Utf8Decode(r.value[1]))])

\* nextTag: -1 at the end of the buffer, else the tag of the next field,
\* the cursor moved back by the field's size
nextTag(data, off) ==
  IF Len(data) - off = 0 THEN [kind |-> "ok", off |-> off, value |-> -1]
  ELSE Then(readField(data, off, None, FALSE), LAMBDA r :
         [kind |-> "ok", off |-> r.off - r.field[1].size, value |-> r.field[1].tag])

(***************************************************************************)
(* The messages.  toRaw returns Ok(bytes) or Throw; fromRaw (the static    *)
(* one, on a new object) returns the decoded object, raises or hangs.      *)
(***************************************************************************)
Fail(r) == [kind |-> r.kind]
Decoded(x) == [kind |-> "ok", value |-> x]
\* the rest of a fromRaw after a read that returned
Try(r, F(_)) == IF r.kind # "ok" THEN Fail(r) ELSE F(r)

\* writeFieldString handed a Buffer (merchantData of PaymentDetails)
\* writes the Buffer's bytes
writeFieldStringOfBuffer(tag, b) == writeFieldBytes(tag, b)

\* one embedded output: op.writeFieldU64(1, value); op.writeFieldBytes(2,
\* script); bw.writeFieldBytes(tag, op.render()).  A null script raises.
WriteOutput(tag, output) ==
  Bind(Render(<<writeFieldU64(1, output.value),
                IF output.script = None THEN Throw
                ELSE writeFieldBytes(2, output.script[1])>>),
       LAMBDA op : IF op.kind # "ok" THEN Throw ELSE writeFieldBytes(tag, op.bytes))

RECURSIVE WriteOutputs(_, _)
WriteOutputs(tag, outputs) ==
  IF outputs = <<>> THEN Skip
  ELSE Render(<<WriteOutput(tag, Head(outputs)), WriteOutputs(tag, Tail(outputs))>>)

\* const op = new ProtoReader(raw);
\* {value: op.readFieldU64(1, true), script: op.readFieldBytes(2, true)}
ReadOutput(raw) ==
  Try(readFieldU64(raw, 0, 1, TRUE), LAMBDA v :
  Try(readFieldBytes(raw, v.off, 2, TRUE), LAMBDA sc :
  Decoded([value |-> v.value, script |-> sc.value])))

\* while (br.nextTag() === tag) outputs.push(<the output of br.readFieldBytes(tag)>)
RECURSIVE ReadOutputs(_, _, _, _)
ReadOutputs(data, off, tag, acc) ==
  Try(nextTag(data, off), LAMBDA t :
    IF t.value # tag THEN [kind |-> "ok", off |-> t.off, value |-> acc]
    ELSE Try(readFieldBytes(data, t.off, tag, FALSE), LAMBDA b :
         Try(ReadOutput(b.value[1]), LAMBDA output :
         ReadOutputs(data, b.off, tag, Append(acc, output.value)))))

\* PaymentDetails
PaymentDetails_toRaw(d) ==
  Render(<<IF d.network # None THEN writeFieldString(1, d.network[1]) ELSE Skip,
           WriteOutputs(2, d.outputs),
           writeFieldU64(3, d.time),
           IF d.expires # MinusOne THEN writeFieldU64(4, d.expires) ELSE Skip,
           IF d.memo # None THEN writeFieldString(5, d.memo[1]) ELSE Skip,
           IF d.paymentUrl # None THEN writeFieldString(6, d.paymentUrl[1]) ELSE Skip,
           IF d.merchantData # None THEN writeFieldStringOfBuffer(7, d.merchantData[1])
           ELSE Skip>>)

PaymentDetails_fromRaw(data) ==
  Try(readFieldString(data, 0, 1, TRUE), LAMBDA network :
  Try(ReadOutputs(data, network.off, 2, <<>>), LAMBDA outputs :
  Try(readFieldU64(data, outputs.off, 3, FALSE), LAMBDA time :
  Try(readFieldU64(data, time.off, 4, TRUE), LAMBDA expires :
  Try(readFieldString(data, expires.off, 5, TRUE), LAMBDA memo :
  Try(readFieldString(data, memo.off, 6, TRUE), LAMBDA paymentUrl :
  Try(readFieldBytes(data, paymentUrl.off, 7, TRUE), LAMBDA merchantData :
  Decoded([network |-> network.value, outputs |-> outputs.value,
           time |-> time.value, expires |-> expires.value,
           memo |-> memo.value, paymentUrl |-> paymentUrl.value,
           merchantData |-> merchantData.value]))))))))

\* Payment
RECURSIVE WriteTransactions(_)
WriteTransactions(txs) ==
  IF txs = <<>> THEN Skip
  ELSE Render(<<writeFieldBytes(2, Head(txs)), WriteTransactions(Tail(txs))>>)

RECURSIVE ReadTransactions(_, _, _)
ReadTransactions(data, off, acc) ==
  Try(nextTag(data, off), LAMBDA t :
    IF t.value # 2 THEN [kind |-> "ok", off |-> t.off, value |-> acc]
    ELSE Try(readFieldBytes(data, t.off, 2, FALSE), LAMBDA tx :
         ReadTransactions(data, tx.off, Append(acc, tx.value[1]))))

Payment_toRaw(p) ==
  Render(<<IF p.merchantData # None THEN writeFieldBytes(1, p.merchantData[1]) ELSE Skip,
           WriteTransactions(p.transactions),
           WriteOutputs(3, p.refundTo),
           IF p.memo # None THEN writeFieldString(4, p.memo[1]) ELSE Skip>>)

Payment_fromRaw(data) ==
  Try(readFieldBytes(data, 0, 1, TRUE), LAMBDA merchantData :
  Try(ReadTransactions(data, merchantData.off, <<>>), LAMBDA transactions :
  Try(ReadOutputs(data, transactions.off, 3, <<>>), LAMBDA refundTo :
  Try(readFieldString(data, refundTo.off, 4, TRUE), LAMBDA memo :
  Decoded([merchantData |-> merchantData.value, transactions |-> transactions.value,
           refundTo |-> refundTo.value, memo |-> memo.value])))))

\* PaymentACK
PaymentACK_toRaw(a) ==
  Bind(Payment_toRaw(a.payment), LAMBDA payment :
    IF payment.kind # "ok" THEN Throw
    ELSE Render(<<writeFieldBytes(1, payment.bytes),
                  IF a.memo # None THEN writeFieldString(2, a.memo[1]) ELSE Skip>>))

PaymentACK_fromRaw(data) ==
  Try(readFieldBytes(data, 0, 1, FALSE), LAMBDA raw :
  Try(Payment_fromRaw(raw.value[1]), LAMBDA payment :
  Try(readFieldString(data, raw.off, 2, TRUE), LAMBDA memo :
  Decoded([payment |-> payment.value, memo |-> memo.value]))))

\* PaymentRequest
PaymentRequest_toRaw(r) ==
  Render(<<IF r.version # MinusOne THEN writeFieldU32(1, r.version) ELSE Skip,
           IF r.pkiType # None THEN writeFieldString(2, r.pkiType[1]) ELSE Skip,
           IF r.pkiData # None THEN writeFieldBytes(3, r.pkiData[1]) ELSE Skip,
           Bind(PaymentDetails_toRaw(r.paymentDetails), LAMBDA details :
             IF details.kind # "ok" THEN Throw ELSE writeFieldBytes(4, details.bytes)),
           IF r.signature # None THEN writeFieldBytes(5, r.signature[1]) ELSE Skip>>)

PaymentRequest_fromRaw(data) ==
  Try(readFieldU32(data, 0, 1, TRUE), LAMBDA version :
  Try(readFieldString(data, version.off, 2, TRUE), LAMBDA pkiType :
  Try(readFieldBytes(data, pkiType.off, 3, TRUE), LAMBDA pkiData :
  Try(readFieldBytes(data, pkiData.off, 4, FALSE), LAMBDA raw :
  Try(PaymentDetails_fromRaw(raw.value[1]), LAMBDA details :
  Try(readFieldBytes(data, raw.off, 5, TRUE), LAMBDA signature :
  Decoded([version |-> version.value, pkiType |-> pkiType.value,
           pkiData |-> pkiData.value, paymentDetails |-> details.value,
           signature |-> signature.value])))))))

(***************************************************************************)
(* The collaborators: pk.js (sign, verify, getHash) and x509.js.  A        *)
(* private key is a key id k, the certificate of its public key is        *)
(* Cert(k), and every other byte string is a corrupted certificate.        *)
(* The RSA signature of msg under hash and key k is ideal: the bytes       *)
(* <<k>> \o hash \o msg, which only verify against k, hash and msg.        *)
(***************************************************************************)
Str_x509 == <<120, 53, 48, 57>>
Str_sha1 == <<115, 104, 97, 49>>
Str_sha224 == <<115, 104, 97, 50, 50, 52>>
Str_sha256 == <<115, 104, 97, 50, 53, 54>>
Str_sha384 == <<115, 104, 97, 51, 56, 52>>
Str_sha512 == <<115, 104, 97, 53, 49, 50>>
Str_none == <<110, 111, 110, 101>>
Str_md5 == <<109, 100, 53>>
Str_pgp == <<112, 103, 112>>
Plus == 43

KeyIds == {1, 2}
\* the certificate of key k: 128 bytes (its length takes two groups), the
\* first of them k
Cert(k) == <<k>> \o [i \in 1..127 |-> 0]
IsCert(c) == \E k \in KeyIds : c = Cert(k)

\* getHash(alg): None is the null of the default case
getHash(alg) ==
  IF alg \in {Str_sha224, Str_sha256, Str_sha384, Str_sha512} THEN Some(alg) ELSE None

rsa_sign(hash, msg, key) == <<key>> \o hash \o msg
rsa_verify(hash, msg, sig, key) == sig = <<key>> \o hash \o msg

\* pk.sign and pk.verify with an RSA key
pk_sign(alg, msg, key) ==
  IF getHash(alg) = None THEN [kind |-> "throw"]
  ELSE [kind |-> "ok", value |-> rsa_sign(getHash(alg)[1], msg, key)]

pk_verify(alg, msg, sig, key) ==
  IF getHash(alg) = None THEN [kind |-> "ok", value |-> FALSE]
  ELSE [kind |-> "ok", value |-> rsa_verify(getHash(alg)[1], msg, sig, key)]

\* x509.signSubject, verifySubject: the key algorithm and the public key
\* are those of the leaf, chain[0]; no leaf, or a corrupted one, raises
x509_signSubject(hash, msg, key, chain) ==
  IF chain = <<>> \/ ~IsCert(chain[1]) THEN [kind |-> "throw"]
  ELSE pk_sign(hash, msg, key)

x509_verifySubject(hash, msg, sig, chain) ==
  IF chain = <<>> \/ ~IsCert(chain[1]) THEN [kind |-> "throw"]
  ELSE pk_verify(hash, msg, sig, chain[1][1])

\* x509.verifyChain: a corrupted certificate raises, an empty chain is
\* not valid, and the certificates of the model are trusted
x509_verifyChain(chain) ==
  IF \E i \in 1..Len(chain) : ~IsCert(chain[i]) THEN [kind |-> "throw"]
  ELSE [kind |-> "ok", value |-> chain # <<>>]

(***************************************************************************)
(* PaymentRequest.  An operation returns its outcome and the request as    *)
(* the call leaves it (req).                                               *)
(***************************************************************************)

\* str.split(sep), sep one character
RECURSIVE Split(_, _)
Split(s, sep) ==
  IF \A i \in 1..Len(s) : s[i] # sep THEN <<s>>
  ELSE LET i == CHOOSE k \in 1..Len(s) : s[k] = sep /\ \A j \in 1..(k - 1) : s[j] # sep
       IN <<SubSeq(s, 1, i - 1)>> \o Split(SubSeq(s, i + 1, Len(s)), sep)

\* !this.pkiType: null or the empty string
NoPkiType(r) == r.pkiType = None \/ r.pkiType[1] = <<>>

\* getAlgorithm() without the allow-list of digests: any x509+<digest>
\* resolves
getAlgorithm_anyDigest(r) ==
  IF NoPkiType(r) THEN [kind |-> "throw", req |-> r]
  ELSE Bind(Split(r.pkiType[1], Plus), LAMBDA parts :
    IF Len(parts) # 2 THEN [kind |-> "throw", req |-> r]
    ELSE IF parts[1] # Str_x509 THEN [kind |-> "throw", req |-> r]
    ELSE [kind |-> "ok", req |-> r, value |-> [key |-> parts[1], hash |-> parts[2]]])

getAlgorithm(r) ==
  IF NoPkiType(r) THEN [kind |-> "throw", req |-> r]
  ELSE Bind(Split(r.pkiType[1], Plus), LAMBDA parts :
    IF Len(parts) # 2 THEN [kind |-> "throw", req |-> r]
    ELSE IF parts[1] # Str_x509 THEN [kind |-> "throw", req |-> r]
    ELSE IF parts[2] # Str_sha1 /\ parts[2] # Str_sha256 THEN [kind |-> "throw", req |-> r]
    ELSE [kind |-> "ok", req |-> r, value |-> [key |-> parts[1], hash |-> parts[2]]])

\* signatureData() that serializes the request with the signature it
\* holds
signatureData_keepsSignature(r) ==
  Bind(PaymentRequest_toRaw(r), LAMBDA data :
    IF data.kind # "ok" THEN [kind |-> "throw", req |-> r]
    ELSE [kind |-> "ok", req |-> r, value |-> data.bytes])

\* the signature is replaced by an empty Buffer, the request serialized,
\* and the signature put back on the line after toRaw() returns
signatureData(r) ==
  Bind(PaymentRequest_toRaw([r EXCEPT !.signature = Some(<<>>)]), LAMBDA data :
    IF data.kind # "ok"
    THEN [kind |-> "throw", req |-> [r EXCEPT !.signature = Some(<<>>)]]
    ELSE [kind |-> "ok", req |-> r, value |-> data.bytes])

RECURSIVE WriteChain(_)
WriteChain(chain) ==
  IF chain = <<>> THEN Skip
  ELSE Render(<<writeFieldBytes(1, Head(chain)), WriteChain(Tail(chain))>>)

\* setChain() that appends the certificates to the pkiData held
setChain_appends(r, chain) ==
  Bind(WriteChain(chain), LAMBDA bw :
    IF bw.kind # "ok" THEN [kind |-> "throw", req |-> r]
    ELSE [kind |-> "ok",
          req |-> [r EXCEPT !.pkiData =
                     Some((IF @ = None THEN <<>> ELSE @[1]) \o bw.bytes)]])

setChain(r, chain) ==
  Bind(WriteChain(chain), LAMBDA bw :
    IF bw.kind # "ok" THEN [kind |-> "throw", req |-> r]
    ELSE [kind |-> "ok", req |-> [r EXCEPT !.pkiData = Some(bw.bytes)]])

\* while (br.nextTag() === 1) chain.push(br.readFieldBytes(1));
RECURSIVE GetChainLoop(_, _, _)
GetChainLoop(data, off, chain) ==
  Try(nextTag(data, off), LAMBDA t :
    IF t.value # 1 THEN [kind |-> "ok", value |-> chain]
    ELSE Try(readFieldBytes(data, t.off, 1, FALSE), LAMBDA cert :
         GetChainLoop(data, cert.off, Append(chain, cert.value[1]))))

getChain(r) ==
  IF r.pkiData = None THEN [kind |-> "ok", value |-> <<>>]
  ELSE GetChainLoop(r.pkiData[1], 0, <<>>)

Str_x509_sha256 == Str_x509 \o <<Plus>> \o Str_sha256

\* how a method of the request ended, and the request as it leaves it
Ended(kind, r) == [kind |-> kind, req |-> r]
Returned(r, v) == [kind |-> "ok", req |-> r, value |-> v]

\* sign(key, certs): certs is None when the argument is not given
sign(r, key, certs) ==
  Bind(IF certs # None THEN setChain(r, certs[1]) ELSE Ended("ok", r), LAMBDA r1 :
  IF r1.kind # "ok" THEN Ended("throw", r1.req) ELSE
  Bind(IF NoPkiType(r1.req) THEN [r1.req EXCEPT !.pkiType = Some(Str_x509_sha256)]
       ELSE r1.req, LAMBDA r2 :
  Bind(getAlgorithm(r2), LAMBDA alg :
  IF alg.kind # "ok" THEN Ended("throw", r2) ELSE
  Bind(signatureData(r2), LAMBDA msg :
  IF msg.kind # "ok" THEN Ended("throw", msg.req) ELSE
  Bind(getChain(r2), LAMBDA chain :
  IF chain.kind # "ok" THEN Ended(chain.kind, r2) ELSE
  Bind(x509_signSubject(alg.value.hash, msg.value, key, chain.value), LAMBDA sig :
  IF sig.kind # "ok" THEN Ended("throw", r2)
  ELSE Ended("ok", [r2 EXCEPT !.signature = Some(sig.value)])))))))

verify(r) ==
  IF NoPkiType(r) \/ r.pkiType[1] = Str_none THEN Returned(r, FALSE)
  ELSE IF r.signature = None THEN Returned(r, FALSE)
  ELSE
  Bind(getAlgorithm(r), LAMBDA alg :
  IF alg.kind # "ok" THEN Returned(r, FALSE) ELSE
  Bind(signatureData(r), LAMBDA msg :
  IF msg.kind # "ok" THEN Ended("throw", msg.req) ELSE
  Bind(getChain(r), LAMBDA chain :
  IF chain.kind # "ok" THEN Ended(chain.kind, r) ELSE
  Bind(x509_verifySubject(alg.value.hash, msg.value, r.signature[1], chain.value),
       LAMBDA v :
  IF v.kind # "ok" THEN Returned(r, FALSE) ELSE Returned(r, v.value)))))

verifyChain(r) ==
  IF NoPkiType(r) \/ r.pkiType[1] = Str_none THEN Returned(r, FALSE)
  ELSE
  Bind(getChain(r), LAMBDA chain :
  IF chain.kind = "hang" THEN Ended("hang", r)
  ELSE IF chain.kind # "ok" THEN Returned(r, FALSE) ELSE
  Bind(x509_verifyChain(chain.value), LAMBDA v :
  IF v.kind # "ok" THEN Returned(r, FALSE) ELSE Returned(r, v.value)))

(***************************************************************************)
(* Construction from options.  An option that is not given is None; the    *)
(* options drawn below pass the assertions of fromOptions.                 *)
(***************************************************************************)

\* Math.floor(Date.now() / 1000) at construction: 1700000000
Now == <<6, 89387264>>

PaymentDetails_new(o) ==
  [network |-> o.network,
   outputs |-> IF o.outputs # None THEN o.outputs[1] ELSE <<>>,
   time |-> IF o.time # None THEN o.time[1] ELSE Now,
   expires |-> IF o.expires # None THEN o.expires[1] ELSE MinusOne,
   memo |-> o.memo,
   paymentUrl |-> o.paymentUrl,
   merchantData |-> o.merchantData]

Payment_new(o) ==
  [merchantData |-> o.merchantData,
   transactions |-> IF o.transactions # None THEN o.transactions[1] ELSE <<>>,
   refundTo |-> IF o.refundTo # None THEN o.refundTo[1] ELSE <<>>,
   memo |-> o.memo]

PaymentACK_new(o) == [payment |-> Payment_new(o.payment), memo |-> o.memo]

PaymentRequest_new(o) ==
  Bind([version |-> IF o.version # None THEN o.version[1] ELSE MinusOne,
        pkiType |-> o.pkiType,
        pkiData |-> o.pkiData,
        paymentDetails |-> PaymentDetails_new(o.paymentDetails),
        signature |-> o.signature],
       LAMBDA r : IF o.chain # None THEN setChain(r, o.chain[1]).req ELSE r)

(***************************************************************************)
(* The inputs.                                                             *)
(***************************************************************************)
MaxChain == 2

SeqsUpTo(S, n) == UNION {[1..k -> S] : k \in 0..n}

\* a corrupted (empty) certificate and the certificate of key 1
Certs == {<<>>, Cert(1)}
Chains == SeqsUpTo(Certs, MaxChain)
\* the certs argument of sign(): not given, no certificate, or one
SignCerts == {None} \cup {Some(c) : c \in SeqsUpTo(Certs, 1)}

NoDetailsOptions ==
  [network |-> None, outputs |-> None, time |-> None, expires |-> None,
   memo |-> None, paymentUrl |-> None, merchantData |-> None]

\* time: the clock, and 2^42
RequestDetailsOptions ==
  {[NoDetailsOptions EXCEPT !.time = t] : t \in {None, Some(Min7Groups)}}

\* absent, "", "none", the two of the allow-list, one part, three parts,
\* another scheme, another digest
PkiTypeOptions ==
  {None, Some(<<>>), Some(Str_none), Some(Str_x509_sha256),
   Some(Str_x509 \o <<Plus>> \o Str_sha1),
   Some(Str_x509),
   Some(Str_x509_sha256 \o <<Plus>> \o Str_sha1),
   Some(Str_pgp \o <<Plus>> \o Str_sha256),
   Some(Str_x509 \o <<Plus>> \o Str_md5)}

\* pkiData that is no list of tag-1 length-delimited fields: a varint
\* field of tag 1 (8), a start group of tag 1 (11)
PkiDataOptions == {None, Some(<<8>>), Some(<<11>>)}

SignatureOptions == {None, Some(<<>>), Some(<<7>>)}

RequestOptions ==
  [version : {Some(Num(1))},
   pkiType : PkiTypeOptions,
   pkiData : PkiDataOptions,
   paymentDetails : RequestDetailsOptions,
   signature : SignatureOptions,
   chain : {None}]

(***************************************************************************)
(* The state machine of one PaymentRequest.                                *)
(*   req   the request                                                     *)
(*   hist  chain: the argument of the last setChain, while pkiData is its  *)
(*         result; signer: the key of the last sign(), if it returned      *)
(*   ret   the last call: op, kind and, when it returned, value            *)
(*   br    a ProtoReader: data, offset; from is the offset at which the    *)
(*         last call started                                               *)
(*   obj   a message handed to its codec: its class, the message x, the     *)
(*         bytes raw of x.toRaw() and the message y of fromRaw(raw)        *)
(***************************************************************************)
Result(op, r) ==
  [op |-> op, kind |-> r.kind, value |-> IF r.kind = "ok" THEN Some(r.value) ELSE None]

NoReader == [data |-> <<>>, offset |-> 0, from |-> 0]

\* serialized requests from the network.  The payment details hold one
\* output, {8, 5}: a value of 5 and no script, and the time 1; pkiType
\* is absent or "x509+sha256", pkiData absent, signature absent or {7}.
ReceivedDetails == <<18, 2, 8, 5, 24, 1>>
ReceivedRaw ==
  {t \o <<34, Len(ReceivedDetails)>> \o ReceivedDetails \o sg :
     t \in {<<>>, <<18, Len(Str_x509_sha256)>> \o Str_x509_sha256},
     sg \in {<<>>, <<42, 1, 7>>}}

\* new PaymentRequest(options), or PaymentRequest.fromRaw(data)
Init ==
  /\ \/ \E o \in RequestOptions : req = PaymentRequest_new(o)
     \/ \E data \in ReceivedRaw : req = PaymentRequest_fromRaw(data).value
  /\ hist = [chain |-> None, signer |-> None]
  /\ br = NoReader
  /\ obj = None
  /\ ret = [op |-> "new", kind |-> "ok", value |-> None]

\* a call that never returns leaves nothing to run
Running == ret.kind # "hang"

SetChain(chain) ==
  /\ Running
  /\ \E r \in {setChain(req, chain)} :
       /\ req' = r.req
       /\ hist' = IF r.kind = "ok" THEN [chain |-> Some(chain), signer |-> None] ELSE hist
       /\ ret' = [op |-> "setChain", kind |-> r.kind, value |-> None]
  /\ UNCHANGED <<br, obj>>

Sign(key, certs) ==
  /\ Running
  /\ \E r \in {sign(req, key, certs)} :
       /\ req' = r.req
       /\ hist' = [chain |-> IF certs # None THEN certs ELSE hist.chain,
                   signer |-> IF r.kind = "ok" THEN Some(key) ELSE None]
       /\ ret' = [op |-> "sign", kind |-> r.kind, value |-> None]
  /\ UNCHANGED <<br, obj>>

GetAlgorithm ==
  /\ Running
  /\ \E r \in {getAlgorithm(req)} :
       /\ req' = r.req
       /\ ret' = Result("getAlgorithm", r)
  /\ UNCHANGED <<hist, br, obj>>

SignatureData ==
  /\ Running
  /\ \E r \in {signatureData(req)} :
       /\ req' = r.req
       /\ ret' = Result("signatureData", r)
  /\ UNCHANGED <<hist, br, obj>>

GetChain ==
  /\ Running
  /\ ret' = Result("getChain", getChain(req))
  /\ UNCHANGED <<req, hist, br, obj>>

Verify ==
  /\ Running
  /\ \E r \in {verify(req)} :
       /\ req' = r.req
       /\ ret' = Result("verify", r)
  /\ UNCHANGED <<hist, br, obj>>

VerifyChain ==
  /\ Running
  /\ \E r \in {verifyChain(req)} :
       /\ req' = r.req
       /\ ret' = Result("verifyChain", r)
  /\ UNCHANGED <<hist, br, obj>>

\* raw = req.toRaw(); req = PaymentRequest.fromRaw(raw): value is raw
Transmit ==
  /\ Running
  /\ \E raw \in {PaymentRequest_toRaw(req)} :
     \E r2 \in {IF raw.kind = "ok" THEN PaymentRequest_fromRaw(raw.bytes)
                ELSE [kind |-> "throw"]} :
       /\ req' = IF r2.kind = "ok" THEN r2.value ELSE req
       /\ ret' = [op |-> "transmit", kind |-> r2.kind,
                  value |-> IF raw.kind = "ok" THEN Some(raw.bytes) ELSE None]
  /\ UNCHANGED <<hist, br, obj>>

Next ==
  \/ \E chain \in Chains : SetChain(chain)
  \/ \E key \in KeyIds, certs \in SignCerts : Sign(key, certs)
  \/ GetAlgorithm
  \/ SignatureData
  \/ GetChain
  \/ Verify
  \/ VerifyChain
  \/ Transmit

Spec == Init /\ [][Next]_vars

(***************************************************************************)
(* The claims about PaymentRequest, checked under Spec.                    *)
(***************************************************************************)

\* C1: verify() is a total predicate: it returns a boolean and never
\* raises, and the boolean is FALSE when pkiType is absent or "none", when
\* the signature is absent, when the algorithm cannot be resolved and when
\* the chain cannot be decoded or verified.
C1_VerifyTotal ==
  ret.op = "verify" =>
    /\ ret.kind = "ok"
    /\ ret.value[1] \in BOOLEAN
    /\ (NoPkiType(req) \/ req.pkiType[1] = Str_none \/ req.signature = None
          \/ getAlgorithm(req).kind # "ok" \/ getChain(req).kind # "ok")
         => ret.value[1] = FALSE

\* C2: verifyChain() is a total predicate: it returns a boolean and never
\* raises, FALSE when pkiType is absent or "none" and when decoding
\* pkiData or the chain validator raises.
C2_VerifyChainTotal ==
  ret.op = "verifyChain" =>
    /\ ret.kind = "ok"
    /\ ret.value[1] \in BOOLEAN
    /\ (NoPkiType(req) \/ req.pkiType[1] = Str_none \/ getChain(req).kind = "throw")
         => ret.value[1] = FALSE

\* C4: the bytes signatureData() returns are the serialization of the
\* request without its signature followed by field 5 as a present field of
\* length zero (the header 42 = 5 * 8 + 2 and the length 0); decoded, the
\* signature is an empty Buffer, not null; and the bytes are those returned
\* whatever signature the request holds.
C4_SignatureCanonical ==
  (ret.op = "signatureData" /\ ret.kind = "ok") =>
    /\ PaymentRequest_toRaw([req EXCEPT !.signature = None]).kind = "ok"
    /\ ret.value[1] =
         PaymentRequest_toRaw([req EXCEPT !.signature = None]).bytes \o <<42, 0>>
    /\ PaymentRequest_fromRaw(ret.value[1]).kind = "ok"
         => PaymentRequest_fromRaw(ret.value[1]).value.signature = Some(<<>>)
    /\ \A sg \in SignatureOptions \cup {Some(<<7, 7>>)} :
         /\ signatureData([req EXCEPT !.signature = sg]).kind = "ok"
         /\ signatureData([req EXCEPT !.signature = sg]).value = ret.value[1]

\* a call of signatureData() returned while the request held the
\* signature {7}
C4_Witness ==
  ret.op = "signatureData" /\ ret.kind = "ok" /\ req.signature = Some(<<7>>)

\* C5: signatureData() leaves the request as it found it, whether the
\* serialization returns or raises.
C5_SignatureDataNoEffect == [][ret'.op = "signatureData" => req' = req]_vars

\* the signature matches key and chain: sign() returned, by the key of the
\* leaf certificate of the chain set, with pkiType "x509+sha256"
SignedByLeaf ==
  /\ hist.signer # None
  /\ hist.chain # None
  /\ hist.chain[1] # <<>>
  /\ hist.chain[1][1] = Cert(hist.signer[1])
  /\ req.pkiType = Some(Str_x509_sha256)

\* C6: after sign(key, chain) with the key of the chain's leaf, the request
\* serialized and decoded again verifies: toRaw and fromRaw return, and
\* verify() of the decoded request returns TRUE.
C6_SignThenVerify ==
  (ret.op = "transmit" /\ SignedByLeaf) =>
    /\ ret.kind = "ok"
    /\ verify(req).kind = "ok"
    /\ verify(req).value = TRUE

\* C7: getChain() returns the certificates given to the last setChain(),
\* in their order, and no certificate when pkiData is absent.
C7_ChainRoundTrip ==
  ret.op = "getChain" =>
    /\ hist.chain # None => (ret.kind = "ok" /\ ret.value[1] = hist.chain[1])
    /\ req.pkiData = None => (ret.kind = "ok" /\ ret.value[1] = <<>>)

\* getChain() returned two equal certificates of 128 bytes
C7_Witness ==
  /\ ret.op = "getChain"
  /\ ret.kind = "ok"
  /\ hist.chain = Some(<<Cert(1), Cert(1)>>)
  /\ ret.value[1] = <<Cert(1), Cert(1)>>

\* C8: getAlgorithm() returns the scheme x509 and the digest d exactly when
\* pkiType is "x509+sha1" or "x509+sha256"; it raises for every other
\* pkiType; and it leaves the request as it found it.
C8_AlgorithmAllowList ==
  [][ret'.op = "getAlgorithm" =>
       /\ req' = req
       /\ ret'.kind \in {"ok", "throw"}
       /\ ret'.kind = "ok" <=>
            req.pkiType \in {Some(Str_x509 \o <<Plus>> \o Str_sha1),
                             Some(Str_x509 \o <<Plus>> \o Str_sha256)}
       /\ req.pkiType = Some(Str_x509 \o <<Plus>> \o Str_sha1)
            => ret'.value = Some([key |-> Str_x509, hash |-> Str_sha1])
       /\ req.pkiType = Some(Str_x509 \o <<Plus>> \o Str_sha256)
            => ret'.value = Some([key |-> Str_x509, hash |-> Str_sha256])]_vars

\* getAlgorithm() resolved "x509+sha1"
C8_Witness ==
  /\ ret.op = "getAlgorithm"
  /\ ret.kind = "ok"
  /\ req.pkiType = Some(Str_x509 \o <<Plus>> \o Str_sha1)
  /\ ret.value = Some([key |-> Str_x509, hash |-> Str_sha1])

(***************************************************************************)
(* The state machine of one ProtoReader over a buffer.                     *)
(***************************************************************************)
MaxLen == 3

\* the bytes of the buffers: the value 0, the value 1, the headers of tag 1
\* (varint 8, length-delimited 10, start group 11, end group 12), and a
\* group with its continuation bit set and no bits of value (128)
ReaderBytes == {0, 1, 8, 10, 11, 12, 128}

\* the numbers encoded: of one group to eight groups
VarintValues ==
  {Num(0), Num(1), Num(127), Num(128), Num(16384), Num(TwoTo21), <<1, 0>>,
   <<128, 0>>, Max6Groups, Min7Groups, MaxSafe}

Prefixes(b) == {SubSeq(b, 1, k) : k \in 0..Len(b)}

\* every buffer of ReaderBytes, and every prefix of the base-128 groups of
\* a number, the encoding itself included
ReaderData ==
  SeqsUpTo(ReaderBytes, MaxLen) \cup UNION {Prefixes(VarintGroups(v)) : v \in VarintValues}

InitReader ==
  /\ \E data \in ReaderData : br = [data |-> data, offset |-> 0, from |-> 0]
  /\ ret = [op |-> "new", kind |-> "ok", value |-> None]
  /\ req = None
  /\ hist = None
  /\ obj = None

\* the cursor after a call that started at br.offset
Moved(off) == [br EXCEPT !.offset = off, !.from = br.offset]

ReadVarint ==
  /\ Running
  /\ \E r \in {readVarint(br.data, br.offset)} :
       /\ br' = Moved(r.off)
       /\ ret' = Result("readVarint", r)
  /\ UNCHANGED <<req, hist, obj>>

ReadField(tag, opt) ==
  /\ Running
  /\ \E r \in {readField(br.data, br.offset, tag, opt)} :
       /\ br' = Moved(r.off)
       /\ ret' = [op |-> "readField", kind |-> r.kind,
                  value |-> IF r.kind = "ok" THEN Some(r.field) ELSE None,
                  tag |-> tag, opt |-> opt]
  /\ UNCHANGED <<req, hist, obj>>

NextTag ==
  /\ Running
  /\ \E r \in {nextTag(br.data, br.offset)} :
       /\ br' = Moved(r.off)
       /\ ret' = Result("nextTag", r)
  /\ UNCHANGED <<req, hist, obj>>

NextReader ==
  \/ ReadVarint
  \/ \E tag \in {None, Some(1), Some(2)}, opt \in BOOLEAN : ReadField(tag, opt)
  \/ NextTag

SpecReader == InitReader /\ [][NextReader]_vars

\* the buffer ends at or after offset off without a group that ends a
\* varint: every byte from off on has its continuation bit set
EndsInsideVarint(data, off) == \A i \in (off + 1)..Len(data) : data[i] >= 128

\* C9: truncation is a hard error: when the buffer ends before the last
\* group of a varint, readVarint raises, and so does a readField whose
\* header is that varint; neither returns a value made up as zero.
C9_TruncationRaises ==
  (ret.op \in {"readVarint", "readField"} /\ EndsInsideVarint(br.data, br.from))
    => ret.kind = "throw"

\* C10: readVarint at the start of the base-128 groups of a number v of
\* 0..2^53-1 returns v and moves the cursor by the number of groups, the
\* eight groups of 2^53-1 included.
C10_VarintBoundary ==
  \A v \in VarintValues :
    (ret.op = "readVarint" /\ br.from = 0 /\ br.data = VarintGroups(v)) =>
      /\ IsSafeNat(v)
      /\ ret.kind = "ok"
      /\ ret.value = Some(v)
      /\ br.offset = Len(VarintGroups(v))

(***************************************************************************)
(* The state machine of one message serialized and decoded again.          *)
(***************************************************************************)
MaxOutputs == 2

\* outputs of the values 0 and 2^53-1
Outputs ==
  {[value |-> Num(0), script |-> Some(<<>>)], [value |-> MaxSafe, script |-> Some(<<118>>)]}

\* network "m", memo "", paymentUrl "u"; time the clock, 0, 2^42-1, 2^42
DetailsOptions ==
  [network : {None, Some(<<109>>)},
   outputs : {Some(s) : s \in SeqsUpTo(Outputs, MaxOutputs)},
   time : {None, Some(Num(0)), Some(Max6Groups), Some(Min7Groups)},
   expires : {None, Some(Num(0))},
   memo : {None, Some(<<>>)},
   paymentUrl : {None, Some(<<117>>)},
   merchantData : {None, Some(<<>>)}]

PaymentOptions ==
  [merchantData : {None, Some(<<>>), Some(<<1>>)},
   transactions : {Some(s) : s \in SeqsUpTo({<<>>, <<2>>}, MaxOutputs)},
   refundTo : {Some(s) : s \in SeqsUpTo(Outputs, MaxOutputs)},
   memo : {None, Some(<<109>>)}]

ACKOptions == [payment : PaymentOptions, memo : {None, Some(<<>>)}]

\* version: absent, 1 and 2^31-1; pkiData: absent, empty, one certificate
CodecRequestOptions ==
  [version : {None, Some(Num(1)), Some(<<7, TwoTo28 - 1>>)},
   pkiType : {None, Some(<<>>), Some(Str_x509_sha256)},
   pkiData : {None, Some(<<>>), Some(<<10, 1, 1>>)},
   paymentDetails : RequestDetailsOptions,
   signature : SignatureOptions,
   chain : {None}]

Message(class, x) == [class |-> class, x |-> x, raw |-> None, y |-> None]

Messages ==
  {Message("PaymentDetails", PaymentDetails_new(o)) : o \in DetailsOptions}
    \cup {Message("Payment", Payment_new(o)) : o \in PaymentOptions}
    \cup {Message("PaymentACK", PaymentACK_new(o)) : o \in ACKOptions}
    \cup {Message("PaymentRequest", PaymentRequest_new(o)) : o \in CodecRequestOptions}

Message_toRaw(class, x) ==
  CASE class = "PaymentDetails" -> PaymentDetails_toRaw(x)
    [] class = "Payment" -> Payment_toRaw(x)
    [] class = "PaymentACK" -> PaymentACK_toRaw(x)
    [] class = "PaymentRequest" -> PaymentRequest_toRaw(x)

Message_fromRaw(class, data) ==
  CASE class = "PaymentDetails" -> PaymentDetails_fromRaw(data)
    [] class = "Payment" -> Payment_fromRaw(data)
    [] class = "PaymentACK" -> PaymentACK_fromRaw(data)
    [] class = "PaymentRequest" -> PaymentRequest_fromRaw(data)

InitCodec ==
  /\ obj \in Messages
  /\ ret = [op |-> "new", kind |-> "ok", value |-> None]
  /\ req = None
  /\ hist = None
  /\ br = NoReader

\* raw = x.toRaw()
ToRaw ==
  /\ obj.raw = None
  /\ \E r \in {Message_toRaw(obj.class, obj.x)} :
       /\ obj' = [obj EXCEPT !.raw = IF r.kind = "ok" THEN Some(r.bytes) ELSE None]
       /\ ret' = [op |-> "toRaw", kind |-> r.kind, value |-> None]
  /\ UNCHANGED <<req, hist, br>>

\* y = fromRaw(raw)
FromRaw ==
  /\ obj.raw # None
  /\ Running
  /\ \E r \in {Message_fromRaw(obj.class, obj.raw[1])} :
       /\ obj' = [obj EXCEPT !.y = IF r.kind = "ok" THEN Some(r.value) ELSE None]
       /\ ret' = [op |-> "fromRaw", kind |-> r.kind, value |-> None]
  /\ UNCHANGED <<req, hist, br>>

\* embedded outputs as they arrive: with neither field, with the value 5
\* only, with the script {118} only, and with both
ReceivedOutputs == {<<>>, <<8, 5>>, <<18, 1, 118>>, <<8, 5, 18, 1, 118>>}

\* the outputs subs, each a length-delimited field of the tag
RECURSIVE Embedded(_, _)
Embedded(tag, subs) ==
  IF subs = <<>> THEN <<>>
  ELSE <<tag * 8 + DELIMITED, Len(Head(subs))>> \o Head(subs)
         \o Embedded(tag, Tail(subs))

\* serialized messages from the network: payment details of one to
\* MaxOutputs outputs (tag 2) and the time 1, and payments refunded to one
\* to MaxOutputs outputs (tag 3)
ReceivedMessages(class) ==
  IF class = "PaymentDetails"
    THEN {Embedded(2, subs) \o <<24, 1>> :
            subs \in SeqsUpTo(ReceivedOutputs, MaxOutputs) \ {<<>>}}
  ELSE IF class = "Payment"
    THEN {Embedded(3, subs) : subs \in SeqsUpTo(ReceivedOutputs, MaxOutputs) \ {<<>>}}
  ELSE {}

\* x = fromRaw(data), the static one, of bytes from the network
Decode(data) ==
  /\ ret.op = "new"
  /\ data \in ReceivedMessages(obj.class)
  /\ \E r \in {Message_fromRaw(obj.class, data)} :
       /\ obj' = IF r.kind = "ok"
                 THEN [class |-> obj.class, x |-> r.value, raw |-> Some(data), y |-> None]
                 ELSE obj
       /\ ret' = [op |-> "decode", kind |-> r.kind, value |-> None]
  /\ UNCHANGED <<req, hist, br>>

NextCodec ==
  \/ ToRaw
  \/ FromRaw
  \/ \E class \in {"PaymentDetails", "Payment"} :
       \E data \in ReceivedMessages(class) : Decode(data)

SpecCodec == InitCodec /\ [][NextCodec]_vars

\* C3: a valid message serializes, the bytes decode, and the decoded
\* message equals the message field by field: sequences in their order,
\* an absent field absent.
C3_RoundTrip ==
  /\ ret.op = "toRaw" => ret.kind = "ok"
  /\ ret.op = "fromRaw" => (ret.kind = "ok" /\ obj.y = Some(obj.x))

\* the outputs a message embeds
OutputsOf(o) ==
  IF o.class = "PaymentDetails" THEN o.x.outputs
  ELSE IF o.class = "Payment" THEN o.x.refundTo
  ELSE <<>>

\* C11: an embedded output that lacks its value or its script is a hard
\* error: no output of a decoded PaymentDetails or Payment has the value
\* -1 or a null script.
C11_OutputFieldsRequired ==
  (ret.op = "decode" /\ ret.kind = "ok") =>
    \A i \in 1..Len(OutputsOf(obj)) :
      /\ OutputsOf(obj)[i].value # MinusOne
      /\ OutputsOf(obj)[i].script # None

\* C12: decoding terminates: on every buffer readField and nextTag return or
\* raise, a buffer with a start group that no end group closes included.
C12_DecodingTerminates ==
  ret.op \in {"readVarint", "readField", "nextTag"} => ret.kind \in {"ok", "throw"}

\* the header read at offset off has a tag other than tag
Mismatch(data, off, tag) ==
  /\ readVarint(data, off).kind = "ok"
  /\ Field(readVarint(data, off).value).tag # tag

\* C13: a readField(tag, opt) that reads a header of another tag leaves the
\* cursor where it was, when opt is true (it returns null) and when opt is
\* false (it raises).
C13_RewindOnMismatch ==
  (ret.op = "readField" /\ ret.tag # None /\ Mismatch(br.data, br.from, ret.tag[1]))
    => /\ br.offset = br.from
       /\ ret.kind = IF ret.opt THEN "ok" ELSE "throw"
       /\ ret.opt => ret.value = Some(None)

\* C14: a digest that getAlgorithm() accepts is one getHash resolves: with
\* it pk.sign does not raise, and pk.verify returns TRUE for the signature
\* of the key.
C14_DigestsAgree ==
  (ret.op = "getAlgorithm" /\ ret.kind = "ok") =>
    /\ getHash(ret.value[1].hash) # None
    /\ \A key \in KeyIds :
         /\ pk_sign(ret.value[1].hash, <<>>, key).kind = "ok"
         /\ pk_verify(ret.value[1].hash, <<>>,
                      rsa_sign(ret.value[1].hash, <<>>, key), key).value = TRUE

====
